---------------------------- MODULE Spec2Model ----------------------------
(***************************************************************************)
(* Model of HotSpot's preserved-mark mechanism                             *)
(* (src/hotspot/share/gc/shared/preservedMarks.cpp).                       *)
(*                                                                         *)
(* The heap is a small set of objects, each with one header word.  A       *)
(* PreservedMarksSet owns an array of per-worker PreservedMarks stacks of  *)
(* (oop, markWord) entries.  The model is of a build with assertions       *)
(* compiled in (ASSERT, not PRODUCT: lines 63, 124 and 167 of the file):   *)
(* an assert that fails stops the VM, which the model records in `failed`  *)
(* and after which no operation runs.                                      *)
(*                                                                         *)
(* The collaborators that preservedMarks.cpp only calls (Stack, oopDesc,   *)
(* markWord, SequentialSubTasksDone, WorkGang, PreservedMarks::push and    *)
(* init_forwarded_mark) are modelled from their documented contracts.  The *)
(* arena the array is allocated in (_in_c_heap) decides only how the array *)
(* is freed and is not part of the state.                                  *)
(***************************************************************************)
EXTENDS Integers, Sequences, FiniteSets, Bags, TLC

(***************************************************************************)
(* Bounds of the model.                                                    *)
(***************************************************************************)
NObj == 2          \* objects in the heap
NMarks == 2        \* distinct mark words a caller may preserve
MaxNum == 2        \* largest worker count handed to init
MaxEntries == 2    \* entries held by the whole set at one time
MaxThreads == 2    \* largest number of active workers of the gang
MaxFwd == 2        \* objects carrying a forwarding pointer at one time

Obj == 1..NObj

(***************************************************************************)
(* Object headers (markWord).  A header is either a plain mark word or a   *)
(* forwarding pointer to another object.  Mark 0 is the canonical          *)
(* (prototype) mark every object starts with.                              *)
(***************************************************************************)
Mark(m) == [fwd |-> FALSE, v |-> m]

Fwd(o) == [fwd |-> TRUE, v |-> o]

InitMark == Mark(0)

PushMarks == {Mark(m) : m \in 1..NMarks}

is_forwarded(h) == h.fwd

forwardee(h) == h.v

(***************************************************************************)
(* OopAndMarkWord.  `from` is a history field: the object the entry was    *)
(* pushed for.  No operation of the program reads it.                      *)
(***************************************************************************)
OopAndMarkWord(o, m) == [obj |-> o, mark |-> m, from |-> o]

get_oop(e) == e.obj

set_oop(e, o) == [e EXCEPT !.obj = o]

\* OopAndMarkWord::set_mark: the header write of one entry.
set_mark(e, h) == [h EXCEPT ![e.obj] = e.mark]

(***************************************************************************)
(* Stack<OopAndMarkWord, mtGC>: a segmented LIFO container with a cache of *)
(* freed segments.  PreservedMarks builds it with max_cache_size 0.        *)
(***************************************************************************)
SegSize == 1

MaxCacheSize == 0

EmptyStack == [elems |-> <<>>, cache |-> 0]

stack_is_empty(s) == s.elems = <<>>

stack_size(s) == Len(s.elems)

cache_size(s) == s.cache

stack_push(s, e) == [s EXCEPT !.elems = Append(s.elems, e)]

stack_top(s) == s.elems[Len(s.elems)]

\* pop: removes the top element; a segment that becomes empty goes to the
\* cache if the cache has room and is freed otherwise.
stack_pop(s) ==
  LET n == Len(s.elems)
      emptied == (n - 1) % SegSize = 0
  IN [elems |-> SubSeq(s.elems, 1, n - 1),
      cache |-> IF emptied /\ s.cache < MaxCacheSize THEN s.cache + 1 ELSE s.cache]

(***************************************************************************)
(* PreservedMarks (one per-worker stack)                                   *)
(***************************************************************************)
\* PreservedMarks::assert_empty: the message of the first failing assert.
PM_assert_empty(s) ==
  IF ~stack_is_empty(s) THEN "stack expected to be empty"
  ELSE IF cache_size(s) # 0 THEN "stack expected to have no cached segments"
  ELSE "none"

\* The loop of PreservedMarks::restore with a bug: the header write is lost
\* for the entry at the bottom of the stack.
RECURSIVE restore_loop_skip(_, _, _)
restore_loop_skip(s, h, w) ==
  IF stack_is_empty(s) THEN [stack |-> s, hdr |-> h, written |-> w]
  ELSE LET elem == stack_top(s)
       IN restore_loop_skip(stack_pop(s),
                            IF Len(s.elems) = 1 THEN h ELSE set_mark(elem, h),
                            IF Len(s.elems) = 1 THEN w ELSE w (+) SetToBag({elem}))

\* The loop of PreservedMarks::restore: pop every entry and write it back.
\* Yields the stack, the headers and the bag of entries written back.
RECURSIVE restore_loop(_, _, _)
restore_loop(s, h, w) ==
  IF stack_is_empty(s) THEN [stack |-> s, hdr |-> h, written |-> w]
  ELSE LET elem == stack_top(s)
       IN restore_loop(stack_pop(s), set_mark(elem, h), w (+) SetToBag({elem}))

\* restore with a bug: a do-while loop, which pops before it tests for
\* emptiness; Stack::pop asserts that the stack is not empty.
PM_restore_do_while(s, h, w) ==
  IF stack_is_empty(s)
    THEN [stack |-> s, hdr |-> h, written |-> w, failed |-> "pop from an empty stack"]
    ELSE LET r == restore_loop(s, h, w)
         IN [stack |-> r.stack, hdr |-> r.hdr, written |-> r.written,
             failed |-> PM_assert_empty(r.stack)]

\* PreservedMarks::restore, with the verdict of its closing assert_empty.
PM_restore(s, h, w) ==
  LET r == restore_loop(s, h, w)
  IN [stack |-> r.stack, hdr |-> r.hdr, written |-> r.written,
      failed |-> PM_assert_empty(r.stack)]

\* adjust_during_full_gc with a bug: the forwardee is read but not stored.
adjust_no_store(s, h) == s

\* adjust_during_full_gc with a bug: an entry whose object is forwarded is
\* taken off the stack.
adjust_drops_forwarded(s, h) ==
  [s EXCEPT !.elems = SelectSeq(s.elems, LAMBDA e : ~is_forwarded(h[get_oop(e)]))]

\* adjust_during_full_gc with a bug: a forwardee that is forwarded itself is
\* followed one hop further.
adjust_two_hops(s, h) ==
  [s EXCEPT !.elems =
     [i \in 1..Len(s.elems) |->
        LET elem == s.elems[i]
            obj == get_oop(elem)
        IN IF ~is_forwarded(h[obj]) THEN elem
           ELSE IF is_forwarded(h[forwardee(h[obj])])
                  THEN set_oop(elem, forwardee(h[forwardee(h[obj])]))
                  ELSE set_oop(elem, forwardee(h[obj]))]]

\* PreservedMarks::adjust_during_full_gc: every entry whose object is
\* forwarded is retargeted, in place, to the forwardee.
PM_adjust_during_full_gc(s, h) ==
  [s EXCEPT !.elems =
     [i \in 1..Len(s.elems) |->
        LET elem == s.elems[i]
            obj == get_oop(elem)
        IN IF is_forwarded(h[obj]) THEN set_oop(elem, forwardee(h[obj])) ELSE elem]]

(***************************************************************************)
(* State                                                                   *)
(***************************************************************************)
VARIABLES
  hdr,                \* object -> header word
  stacks,             \* _stacks: [null, arr], arr a function 0..n-1 -> stack
  num,                \* _num
  failed,             \* "none", or the message of the assert that failed
  pc,                 \* the calling thread: "idle" or "run_task"
  total_size,         \* restore's local total_size
  total_size_before,  \* restore's local total_size_before
  n_threads,          \* SequentialSubTasksDone::_n_threads
  n_tasks,            \* SequentialSubTasksDone::_n_tasks
  n_claimed,          \* SequentialSubTasksDone::_n_claimed
  n_completed,        \* SequentialSubTasksDone::_n_completed
  wpc,                \* worker_id -> position in ParRestoreTask::work
  task_id,            \* worker_id -> work's local task_id
  wsize,              \* worker_id -> restore_and_increment's local stack_size
  op,                 \* history: the operation called last (arg: init's num or do_object's
                      \* obj; fwd: do_object found the object forwarded)
  written,            \* history: entries written back by the restore called last
  visits,             \* history: slot -> workers that restored it in this task
  n_adds,             \* history: the Atomic::add calls made on total_size in this task
  lastLife            \* history: the lifecycle operation that succeeded last, the
                      \* worker count of the initialization reclaimed last (prev)
                      \* and the argument of the last successful init (n)

vars == <<hdr, stacks, num, failed, pc, total_size,
          total_size_before, n_threads, n_tasks, n_claimed, n_completed, wpc,
          task_id, wsize, op, written, visits, n_adds, lastLife>>

NullStacks == [null |-> TRUE, arr |-> <<>>]

Slots == 0..(num - 1)

get(i) == stacks.arr[i]

\* The sum of the sizes of slots 0..n-1 of arr (restore's pre-pass loop).
RECURSIVE TotalSize(_, _)
TotalSize(arr, n) == IF n = 0 THEN 0 ELSE TotalSize(arr, n - 1) + stack_size(arr[n - 1])

SumSizes(n) == TotalSize(stacks.arr, n)

NoWorkers == <<>>

Init ==
  /\ hdr = [o \in Obj |-> InitMark]
  /\ stacks = NullStacks
  /\ num = 0
  /\ failed = "none"
  /\ pc = "idle"
  /\ total_size = 0
  /\ total_size_before = 0
  /\ n_threads = 0
  /\ n_tasks = 0
  /\ n_claimed = 0
  /\ n_completed = 0
  /\ wpc = NoWorkers
  /\ task_id = NoWorkers
  /\ wsize = NoWorkers
  /\ op = [name |-> "new", arg |-> 0, fwd |-> FALSE]
  /\ written = EmptyBag
  /\ visits = <<>>
  /\ n_adds = 0
  /\ lastLife = [name |-> "none", prev |-> 0, n |-> 0]


(***************************************************************************)
(* PreservedMarksSet                                                       *)
(***************************************************************************)
RECURSIVE first_nonempty(_, _, _)
first_nonempty(arr, i, n) ==
  IF i = n THEN "none"
  ELSE IF PM_assert_empty(arr[i]) # "none" THEN PM_assert_empty(arr[i])
  ELSE first_nonempty(arr, i + 1, n)

\* assert_empty with a bug: a set without slots passes.
assert_empty_unless_null(st, n) ==
  IF st.null \/ n = 0 THEN "none" ELSE first_nonempty(st.arr, 0, n)

\* PreservedMarksSet::assert_empty: the message of the first failing assert.
PMS_assert_empty(st, n) ==
  IF ~(~st.null /\ n > 0) THEN "should have been initialized"
  ELSE first_nonempty(st.arr, 0, n)

\* The locals of a restore() call and of its gang task are visible in the
\* state the call returns in; the operation called next starts without them.
NoRestoreLocals ==
  /\ total_size' = 0
  /\ total_size_before' = 0
  /\ n_threads' = 0
  /\ n_tasks' = 0
  /\ n_claimed' = 0
  /\ n_completed' = 0
  /\ wpc' = NoWorkers
  /\ task_id' = NoWorkers
  /\ wsize' = NoWorkers
  /\ written' = EmptyBag
  /\ visits' = <<>>
  /\ n_adds' = 0

Callable == pc = "idle" /\ failed = "none"

\* init with a bug: the re-initialization check is missing.
init_unchecked(n) ==
  /\ Callable
  /\ op' = [name |-> "init", arg |-> n, fwd |-> FALSE]
  /\ NoRestoreLocals
  /\ UNCHANGED <<hdr, pc>>
  /\ IF ~(n > 0)
       THEN /\ failed' = "pre-condition"
            /\ UNCHANGED <<stacks, num, lastLife>>
       ELSE /\ stacks' = [null |-> FALSE, arr |-> [i \in 0..(n - 1) |-> EmptyStack]]
            /\ num' = n
            /\ failed' = PMS_assert_empty(stacks', num')
            /\ lastLife' = [lastLife EXCEPT !.name = "init", !.n = n]

\* init with a bug: the pre-condition tests the field _num, not the
\* argument num.
init_tests_field(n) ==
  /\ Callable
  /\ op' = [name |-> "init", arg |-> n, fwd |-> FALSE]
  /\ NoRestoreLocals
  /\ UNCHANGED <<hdr, pc>>
  /\ IF ~(stacks.null /\ num = 0)
       THEN /\ failed' = "do not re-initialize"
            /\ UNCHANGED <<stacks, num, lastLife>>
       ELSE /\ failed' = "pre-condition"
            /\ UNCHANGED <<stacks, num, lastLife>>

\* init with a bug: _num is set to one less than the slots allocated.
init_miscounts(n) ==
  /\ Callable
  /\ op' = [name |-> "init", arg |-> n, fwd |-> FALSE]
  /\ NoRestoreLocals
  /\ UNCHANGED <<hdr, pc>>
  /\ IF ~(stacks.null /\ num = 0)
       THEN /\ failed' = "do not re-initialize"
            /\ UNCHANGED <<stacks, num, lastLife>>
       ELSE IF ~(n > 0)
       THEN /\ failed' = "pre-condition"
            /\ UNCHANGED <<stacks, num, lastLife>>
       ELSE /\ stacks' = [null |-> FALSE, arr |-> [i \in 0..(n - 1) |-> EmptyStack]]
            /\ num' = n - 1
            /\ failed' = PMS_assert_empty(stacks', num')
            /\ lastLife' = [lastLife EXCEPT !.name = "init", !.n = n]

\* PreservedMarksSet::init(num)
PMS_init(n) ==
  /\ Callable
  /\ op' = [name |-> "init", arg |-> n, fwd |-> FALSE]
  /\ NoRestoreLocals
  /\ UNCHANGED <<hdr, pc>>
  /\ IF ~(stacks.null /\ num = 0)
       THEN /\ failed' = "do not re-initialize"
            /\ UNCHANGED <<stacks, num, lastLife>>
       ELSE IF ~(n > 0)
       THEN /\ failed' = "pre-condition"
            /\ UNCHANGED <<stacks, num, lastLife>>
       ELSE /\ stacks' = [null |-> FALSE, arr |-> [i \in 0..(n - 1) |-> EmptyStack]]
            /\ num' = n
            /\ failed' = PMS_assert_empty(stacks', num')
            /\ lastLife' = [lastLife EXCEPT !.name = "init", !.n = n]

\* reclaim with a bug: _num is not reset.
reclaim_keeps_num ==
  /\ Callable
  /\ op' = [name |-> "reclaim", arg |-> 0, fwd |-> FALSE]
  /\ NoRestoreLocals
  /\ UNCHANGED <<hdr, pc>>
  /\ IF PMS_assert_empty(stacks, num) # "none"
       THEN /\ failed' = PMS_assert_empty(stacks, num)
            /\ UNCHANGED <<stacks, num, lastLife>>
       ELSE /\ stacks' = NullStacks
            /\ num' = num
            /\ failed' = "none"
            /\ lastLife' = [name |-> "reclaim", prev |-> num, n |-> 0]

\* reclaim with a bug: the emptiness check is missing.
reclaim_unchecked ==
  /\ Callable
  /\ op' = [name |-> "reclaim", arg |-> 0, fwd |-> FALSE]
  /\ NoRestoreLocals
  /\ UNCHANGED <<hdr, pc>>
  /\ stacks' = NullStacks
  /\ num' = 0
  /\ failed' = "none"
  /\ lastLife' = [name |-> "reclaim", prev |-> num, n |-> 0]

\* PreservedMarksSet::reclaim()
PMS_reclaim ==
  /\ Callable
  /\ op' = [name |-> "reclaim", arg |-> 0, fwd |-> FALSE]
  /\ NoRestoreLocals
  /\ UNCHANGED <<hdr, pc>>
  /\ IF PMS_assert_empty(stacks, num) # "none"
       THEN /\ failed' = PMS_assert_empty(stacks, num)
            /\ UNCHANGED <<stacks, num, lastLife>>
       ELSE /\ stacks' = NullStacks
            /\ num' = 0
            /\ failed' = "none"
            /\ lastLife' = [name |-> "reclaim", prev |-> num, n |-> 0]

\* get(w)->push(obj, m), called by a collector worker during preservation.
Push(w, o, m) ==
  /\ Callable
  /\ ~stacks.null
  /\ w \in Slots
  /\ SumSizes(num) < MaxEntries
  /\ op' = [name |-> "push", arg |-> 0, fwd |-> FALSE]
  /\ NoRestoreLocals
  /\ stacks' = [stacks EXCEPT !.arr[w] = stack_push(@, OopAndMarkWord(o, m))]
  /\ UNCHANGED <<hdr, num, failed, pc, lastLife>>

\* The collector relocates object a: its header becomes a forwarding
\* pointer to b (oopDesc::forward_to).
Forward(a, b) ==
  /\ Callable
  /\ a # b
  /\ ~is_forwarded(hdr[a])
  /\ Cardinality({o \in Obj : is_forwarded(hdr[o])}) < MaxFwd
  /\ op' = [name |-> "forward", arg |-> 0, fwd |-> FALSE]
  /\ NoRestoreLocals
  /\ hdr' = [hdr EXCEPT ![a] = Fwd(b)]
  /\ UNCHANGED <<stacks, num, failed, pc, lastLife>>

\* get(w)->adjust_during_full_gc()
Adjust(w) ==
  /\ Callable
  /\ ~stacks.null
  /\ w \in Slots
  /\ op' = [name |-> "adjust", arg |-> 0, fwd |-> FALSE]
  /\ NoRestoreLocals
  /\ stacks' = [stacks EXCEPT !.arr[w] = PM_adjust_during_full_gc(@, hdr)]
  /\ UNCHANGED <<hdr, num, failed, pc, lastLife>>

\* get(w)->restore(), PreservedMarks::restore called on one stack.
StackRestore(w) ==
  /\ Callable
  /\ ~stacks.null
  /\ w \in Slots
  /\ op' = [name |-> "restore", arg |-> 0, fwd |-> FALSE]
  /\ LET r == PM_restore(get(w), hdr, EmptyBag)
     IN /\ stacks' = [stacks EXCEPT !.arr[w] = r.stack]
        /\ hdr' = r.hdr
        /\ written' = r.written
        /\ failed' = r.failed
  /\ total_size' = 0
  /\ total_size_before' = 0
  /\ n_threads' = 0
  /\ n_tasks' = 0
  /\ n_claimed' = 0
  /\ n_completed' = 0
  /\ wpc' = NoWorkers
  /\ task_id' = NoWorkers
  /\ wsize' = NoWorkers
  /\ visits' = <<>>
  /\ n_adds' = 0
  /\ UNCHANGED <<num, pc, lastLife>>


\* The sequential loop with a bug: the bound is num - 1, the last slot is
\* left out.
RECURSIVE seq_restore_loop_skip_last(_, _, _, _, _, _)
seq_restore_loop_skip_last(i, n, arr, h, w, total) ==
  IF i >= n - 1 THEN [arr |-> arr, hdr |-> h, written |-> w, total |-> total, failed |-> "none"]
  ELSE LET r == PM_restore(arr[i], h, w)
           arr2 == [arr EXCEPT ![i] = r.stack]
           total2 == total + stack_size(arr[i])
       IN IF r.failed # "none"
            THEN [arr |-> arr2, hdr |-> r.hdr, written |-> r.written,
                  total |-> total2, failed |-> r.failed]
            ELSE seq_restore_loop_skip_last(i + 1, n, arr2, r.hdr, r.written, total2)

\* The sequential loop of PreservedMarksSet::restore (workers == NULL):
\* slot by slot, add the slot's size to the total and restore the slot.
RECURSIVE seq_restore_loop(_, _, _, _, _, _)
seq_restore_loop(i, n, arr, h, w, total) ==
  IF i = n THEN [arr |-> arr, hdr |-> h, written |-> w, total |-> total, failed |-> "none"]
  ELSE LET r == PM_restore(arr[i], h, w)
           arr2 == [arr EXCEPT ![i] = r.stack]
           total2 == total + stack_size(arr[i])
       IN IF r.failed # "none"
            THEN [arr |-> arr2, hdr |-> r.hdr, written |-> r.written,
                  total |-> total2, failed |-> r.failed]
            ELSE seq_restore_loop(i + 1, n, arr2, r.hdr, r.written, total2)

\* The checks that close PreservedMarksSet::restore: assert_empty, then
\* total_size == total_size_before.
restore_post_checks(st, n, total, before) ==
  IF PMS_assert_empty(st, n) # "none" THEN PMS_assert_empty(st, n)
  ELSE IF total # before THEN "total_size differs from before"
  ELSE "none"

\* PreservedMarksSet::restore(NULL): the sequential path.
RestoreSeq ==
  /\ Callable
  /\ op' = [name |-> "restore_set", arg |-> 0, fwd |-> FALSE]
  /\ LET before == SumSizes(num)
         r == seq_restore_loop(0, num, stacks.arr, hdr, EmptyBag, 0)
     IN /\ total_size_before' = before
        /\ total_size' = r.total
        /\ stacks' = [stacks EXCEPT !.arr = r.arr]
        /\ hdr' = r.hdr
        /\ written' = r.written
        /\ failed' = IF r.failed # "none" THEN r.failed
                     ELSE restore_post_checks(stacks', num, r.total, before)
  /\ n_threads' = 0
  /\ n_tasks' = 0
  /\ n_claimed' = 0
  /\ n_completed' = 0
  /\ wpc' = NoWorkers
  /\ task_id' = NoWorkers
  /\ wsize' = NoWorkers
  /\ visits' = <<>>
  /\ n_adds' = 0
  /\ UNCHANGED <<num, pc, lastLife>>

(***************************************************************************)
(* PreservedMarksSet::restore(workers): the parallel path.  The caller     *)
(* takes the pre-pass snapshot, builds the ParRestoreTask and blocks in    *)
(* run_task until every active worker has returned from work().            *)
(***************************************************************************)
Workers == 0..(n_threads - 1)

RestoreParBegin(T) ==
  /\ Callable
  /\ op' = [name |-> "restore_set_par", arg |-> 0, fwd |-> FALSE]
  /\ total_size' = 0
  /\ total_size_before' = SumSizes(num)
  /\ n_threads' = T
  /\ n_tasks' = num
  /\ n_claimed' = 0
  /\ n_completed' = 0
  /\ wpc' = [t \in 0..(T - 1) |-> "claim"]
  /\ task_id' = [t \in 0..(T - 1) |-> 0]
  /\ wsize' = [t \in 0..(T - 1) |-> 0]
  /\ written' = EmptyBag
  /\ visits' = [i \in Slots |-> <<>>]
  /\ n_adds' = 0
  /\ pc' = "run_task"
  /\ UNCHANGED <<hdr, stacks, num, failed, lastLife>>

Running(t) == pc = "run_task" /\ failed = "none" /\ t \in Workers

\* work() with a bug: the slot is chosen by worker_id, not by the claimed
\* task id.
work_slot_by_worker_id(t) == IF t < num THEN t ELSE task_id[t]

\* The slot work() hands to restore_and_increment: get(task_id).
work_slot(t) == task_id[t]

\* work() with a bug: the loop is an if, one slot per worker at most.
work_claims_once == "signal"

\* work(): the while loop goes back to try_claim_task after each slot.
work_after_slot == "claim"

\* work() with a bug: a worker that finds no task to claim polls again.
work_polls_forever == "claim"

\* work(): the loop ends when try_claim_task fails; all_tasks_completed
\* follows.
work_after_last_slot == "signal"

\* SequentialSubTasksDone::try_claim_task: atomically take the next
\* unclaimed task id, or find that none remains.
TryClaim(t) ==
  /\ Running(t)
  /\ wpc[t] = "claim"
  /\ IF n_claimed < n_tasks
       THEN /\ task_id' = [task_id EXCEPT ![t] = n_claimed]
            /\ n_claimed' = n_claimed + 1
            /\ wpc' = [wpc EXCEPT ![t] = "size"]
       ELSE /\ wpc' = [wpc EXCEPT ![t] = work_after_last_slot]
            /\ UNCHANGED <<task_id, n_claimed>>
  /\ UNCHANGED <<hdr, stacks, num, failed, pc, total_size,
                 total_size_before, n_threads, n_tasks, n_completed, wsize, op,
                 written, visits, n_adds, lastLife>>

\* restore_and_increment, first line: stack_size = size().
ReadSize(t) ==
  /\ Running(t)
  /\ wpc[t] = "size"
  /\ wsize' = [wsize EXCEPT ![t] = stack_size(get(work_slot(t)))]
  /\ visits' = [visits EXCEPT ![work_slot(t)] = Append(@, t)]
  /\ wpc' = [wpc EXCEPT ![t] = "restore"]
  /\ UNCHANGED <<hdr, stacks, num, failed, pc, total_size,
                 total_size_before, n_threads, n_tasks, n_claimed, n_completed,
                 task_id, op, written, n_adds, lastLife>>

\* restore_and_increment, second line: restore().
DoRestore(t) ==
  /\ Running(t)
  /\ wpc[t] = "restore"
  /\ LET r == PM_restore(get(work_slot(t)), hdr, written)
     IN /\ stacks' = [stacks EXCEPT !.arr[work_slot(t)] = r.stack]
        /\ hdr' = r.hdr
        /\ written' = r.written
        /\ failed' = r.failed
  /\ wpc' = [wpc EXCEPT ![t] = "add"]
  /\ UNCHANGED <<num, pc, total_size, total_size_before,
                 n_threads, n_tasks, n_claimed, n_completed, task_id, wsize, op,
                 visits, n_adds, lastLife>>

\* restore_and_increment with a bug: the add is a plain store of the size.
increment_overwrites(total, size) == IF size > 0 THEN size ELSE total

\* restore_and_increment, the tally: Atomic::add of the size, if it is > 0.
increment(total, size) == IF size > 0 THEN total + size ELSE total

\* restore_and_increment with a bug: Atomic::add is called for every size.
adds_always(size) == TRUE

\* restore_and_increment's guard of the tally: if (stack_size > 0).
adds_atomically(size) == size > 0

AtomicAdd(t) ==
  /\ Running(t)
  /\ wpc[t] = "add"
  /\ total_size' = increment(total_size, wsize[t])
  /\ n_adds' = IF adds_atomically(wsize[t]) THEN n_adds + 1 ELSE n_adds
  /\ wpc' = [wpc EXCEPT ![t] = work_after_slot]
  /\ UNCHANGED <<hdr, stacks, num, failed, pc,
                 total_size_before, n_threads, n_tasks, n_claimed, n_completed,
                 task_id, wsize, op, written, visits, lastLife>>

\* SequentialSubTasksDone::all_tasks_completed, then work() returns.
Signal(t) ==
  /\ Running(t)
  /\ wpc[t] = "signal"
  /\ n_completed' = n_completed + 1
  /\ wpc' = [wpc EXCEPT ![t] = "done"]
  /\ UNCHANGED <<hdr, stacks, num, failed, pc, total_size,
                 total_size_before, n_threads, n_tasks, n_claimed, task_id, wsize,
                 op, written, visits, n_adds, lastLife>>

\* run_task returns once every worker is done; restore runs its checks.
RestoreParEnd ==
  /\ pc = "run_task"
  /\ failed = "none"
  /\ \A t \in Workers : wpc[t] = "done"
  /\ failed' = restore_post_checks(stacks, num, total_size, total_size_before)
  /\ pc' = "idle"
  /\ UNCHANGED <<hdr, stacks, num, total_size,
                 total_size_before, n_threads, n_tasks, n_claimed, n_completed,
                 wpc, task_id, wsize, op, written, visits, n_adds, lastLife>>

(***************************************************************************)
(* RemoveForwardedPointerClosure                                           *)
(***************************************************************************)
\* PreservedMarks::init_forwarded_mark(obj): a static helper that is given
\* the object alone; it resets the header to the canonical mark.
init_forwarded_mark(h, o) == [h EXCEPT ![o] = InitMark]

\* do_object with a bug: the helper is never called.
do_object_noop(h, o) == h

\* RemoveForwardedPointerClosure::do_object(obj)
do_object(h, o) == IF is_forwarded(h[o]) THEN init_forwarded_mark(h, o) ELSE h

DoObject(o) ==
  /\ Callable
  /\ op' = [name |-> "do_object", arg |-> o, fwd |-> is_forwarded(hdr[o])]
  /\ NoRestoreLocals
  /\ hdr' = do_object(hdr, o)
  /\ UNCHANGED <<stacks, num, failed, pc, lastLife>>

Next ==
  \/ \E n \in 0..MaxNum : PMS_init(n)
  \/ PMS_reclaim
  \/ \E w \in Slots, o \in Obj, m \in PushMarks : Push(w, o, m)
  \/ \E a \in Obj, b \in Obj : Forward(a, b)
  \/ \E w \in Slots : Adjust(w)
  \/ \E w \in Slots : StackRestore(w)
  \/ RestoreSeq
  \/ \E T \in 1..MaxThreads : RestoreParBegin(T)
  \/ \E t \in Workers : TryClaim(t)
  \/ \E t \in Workers : ReadSize(t)
  \/ \E t \in Workers : DoRestore(t)
  \/ \E t \in Workers : AtomicAdd(t)
  \/ \E t \in Workers : Signal(t)
  \/ RestoreParEnd
  \/ \E o \in Obj : DoObject(o)

Spec == Init /\ [][Next]_vars


(***************************************************************************)
(* Properties                                                              *)
(***************************************************************************)
Elems(s) == {s.elems[k] : k \in 1..Len(s.elems)}

DistinctTargets(s) ==
  \A j, k \in 1..Len(s.elems) : j # k => s.elems[j].obj # s.elems[k].obj

\* Every entry still targets the object it was pushed for: the stack is what
\* a sequence of pushes alone leaves.
AsPushed(s) == \A e \in Elems(s) : e.from = e.obj

Targets(s) == {e.obj : e \in Elems(s)}

\* The slots a step drains: non-empty before it, empty after it.
RestoredSlots ==
  {w \in Slots : /\ ~stack_is_empty(get(w))
                 /\ ~stacks'.null
                 /\ num' = num
                 /\ stack_is_empty(stacks'.arr[w])}

\* A step that runs PreservedMarks::restore on one non-empty stack, w.
RestoresOnly(w) == RestoredSlots = {w}

\* C1 as stated: for any sequence of pushes of (object_i, mark_i) onto one
\* stack followed by PreservedMarks::restore(), every object_i's header
\* equals mark_i afterwards, and the stack is empty with no cached segment.
C1_RoundTripAnyPushes ==
  [][\A w \in Slots :
       (RestoresOnly(w) /\ AsPushed(get(w))) =>
          /\ \A e \in Elems(get(w)) : hdr'[e.obj] = e.mark
          /\ stack_is_empty(stacks'.arr[w])
          /\ cache_size(stacks'.arr[w]) = 0]_vars

\* C1 amended: for pushes with pairwise distinct objects, restore() leaves
\* every object_i's header equal to mark_i, the stack empty with no cached
\* segment, and fails no assert.
C1_RoundTrip ==
  [][\A w \in Slots :
       (RestoresOnly(w) /\ DistinctTargets(get(w))) =>
          /\ \A e \in Elems(get(w)) : hdr'[e.obj] = e.mark
          /\ stack_is_empty(stacks'.arr[w])
          /\ cache_size(stacks'.arr[w]) = 0
          /\ failed' = "none"]_vars

\* C1 witness: restore() has just drained a stack of two entries for two
\* different objects with two different marks, and both headers hold them.
C1_Witness ==
  /\ op.name = "restore"
  /\ failed = "none"
  /\ \E e1, e2 \in BagToSet(written) :
       /\ e1.obj # e2.obj
       /\ e1.mark # e2.mark
       /\ e1.from = e1.obj /\ e2.from = e2.obj
       /\ hdr[e1.obj] = e1.mark
       /\ hdr[e2.obj] = e2.mark
  /\ \A w \in Slots : stack_is_empty(get(w)) /\ cache_size(get(w)) = 0


\* The sizes read by the workers that have restored their slot and have not
\* yet added to the tally.
RECURSIVE PendingAdds(_)
PendingAdds(t) ==
  IF t = 0 THEN 0
  ELSE PendingAdds(t - 1) + (IF wpc[t - 1] = "add" THEN wsize[t - 1] ELSE 0)

SetRestoreReturned == op.name \in {"restore_set", "restore_set_par"} /\ pc = "idle"

\* C2: PreservedMarksSet::restore of an initialized set ends with a total
\* equal to the sum of the slot sizes (the number of entries written back,
\* which is the pre-pass snapshot total_size_before) and with every slot
\* empty, on the sequential path and on the parallel path under every
\* thread count and interleaving; the total_size check never fails.
C2_Tally ==
  /\ failed # "total_size differs from before"
  /\ (pc = "run_task" /\ ~stacks.null) =>
        /\ BagCardinality(written) + SumSizes(num) = total_size_before
        /\ total_size + PendingAdds(n_threads) = BagCardinality(written)
  /\ (SetRestoreReturned /\ ~stacks.null) =>
        /\ total_size = total_size_before
        /\ total_size = BagCardinality(written)
        /\ \A w \in Slots : stack_is_empty(get(w))
        /\ failed = "none"

\* C2 witness: a parallel restore by two workers of two slots of one entry
\* each has returned with total 2, each worker having restored one slot.
C2_Witness ==
  /\ SetRestoreReturned
  /\ op.name = "restore_set_par"
  /\ failed = "none"
  /\ n_threads = 2
  /\ num = 2
  /\ total_size = 2
  /\ total_size_before = 2
  /\ visits[0] # visits[1]
  /\ Len(visits[0]) = 1 /\ Len(visits[1]) = 1

InRestore(t) == wpc[t] \in {"size", "restore"}

\* C3: in the parallel restore task with T threads and N slots, under every
\* interleaving, no slot is handed to restore_and_increment twice, no two
\* workers are inside restore_and_increment on the same slot at once, and
\* when every worker is done each slot 0..N-1 has been restored by exactly
\* one worker.
C3_PartitionExclusivity ==
  (pc = "run_task" \/ op.name = "restore_set_par") =>
     /\ DOMAIN visits = Slots
     /\ \A s \in Slots : Len(visits[s]) <= 1
     /\ \A t \in Workers : InRestore(t) => work_slot(t) \in Slots
     /\ \A t1, t2 \in Workers :
          (t1 # t2 /\ InRestore(t1) /\ InRestore(t2)) => work_slot(t1) # work_slot(t2)
     /\ (\A t \in Workers : wpc[t] = "done") => \A s \in Slots : Len(visits[s]) = 1

\* C3 witness: two workers, two slots, every worker done, and the slots were
\* taken in the opposite order of the worker ids.
C3_Witness ==
  /\ pc = "run_task"
  /\ n_threads = 2
  /\ num = 2
  /\ \A t \in Workers : wpc[t] = "done"
  /\ visits[0] = <<1>>
  /\ visits[1] = <<0>>


\* What adjust_during_full_gc is to make of an entry: retargeted to the
\* forwardee if its object is forwarded, the saved mark kept.
Retargeted(e, h) ==
  IF h[e.obj].fwd THEN [obj |-> h[e.obj].v, mark |-> e.mark, from |-> e.from] ELSE e

\* A restore of the one stack w writes back every entry of w, to the
\* entry's current target, and writes no other object's header.
WritesBackTo(w) ==
  /\ \A e \in Elems(get(w)) : BagIn(e, written')
  /\ \A o \in Obj :
       IF o \in Targets(get(w))
         THEN hdr'[o] \in {e.mark : e \in {x \in Elems(get(w)) : x.obj = o}}
         ELSE hdr'[o] = hdr[o]

\* C4: adjust_during_full_gc retargets an entry pushed for A, whose header
\* forwards to B, to B with its saved mark m, and a restore of the stack
\* then writes m through the entry into B's header; the header of an object
\* no entry targets (A, once retargeted) is not written.
C4_Adjustment ==
  [][/\ op'.name = "adjust" =>
          /\ hdr' = hdr
          /\ \E w \in Slots :
               /\ \A v \in Slots \ {w} : stacks'.arr[v] = get(v)
               /\ Len(stacks'.arr[w].elems) = Len(get(w).elems)
               /\ \A k \in 1..Len(get(w).elems) :
                    stacks'.arr[w].elems[k] = Retargeted(get(w).elems[k], hdr)
     /\ \A w \in Slots : RestoresOnly(w) => WritesBackTo(w)]_vars

\* C4 witness: restore() has written the mark of an entry pushed for A into
\* the header of B, the object A forwards to, and A's header is still the
\* forwarding pointer.
C4_Witness ==
  /\ op.name = "restore"
  /\ failed = "none"
  /\ \E e \in BagToSet(written) :
       /\ e.from # e.obj
       /\ hdr[e.obj] = e.mark
       /\ hdr[e.from] = Fwd(e.obj)

C6_InitRejected ==
  [][/\ (op'.name = "init" /\ ~(stacks.null /\ num = 0)) =>
          /\ failed' = "do not re-initialize"
          /\ stacks' = stacks
          /\ num' = num
          /\ hdr' = hdr
     /\ (op'.name = "init" /\ failed' = "none") => lastLife.name \in {"none", "reclaim"}
     /\ (op'.name = "reclaim" /\ failed' = "none") => lastLife.name = "init"]_vars

\* C6 witness: a second init on an initialized set has been rejected.
C6_Witness ==
  /\ op.name = "init"
  /\ failed = "do not re-initialize"
  /\ ~stacks.null
  /\ num > 0

\* C7: reclaim while a slot holds an entry fails the "stack expected to be
\* empty" assert and changes nothing; and whenever entries leave the stacks,
\* exactly as many entries are written back in that step.
C7_ReclaimRejected ==
  [][/\ (op'.name = "reclaim" /\ \E w \in Slots : ~stack_is_empty(get(w))) =>
          /\ failed' = "stack expected to be empty"
          /\ stacks' = stacks
          /\ num' = num
     /\ LET before == TotalSize(stacks.arr, num)
            after == TotalSize(stacks'.arr, num')
        IN after < before =>
             before - after = BagCardinality(written')
                              - (IF pc = "run_task" THEN BagCardinality(written) ELSE 0)]_vars

\* C7 witness: a reclaim of a set that holds an entry has been rejected.
C7_Witness ==
  /\ op.name = "reclaim"
  /\ failed = "stack expected to be empty"
  /\ SumSizes(num) > 0

AllEmpty == \A w \in Slots : stack_is_empty(get(w))

\* C8: every step of a set-level restore (sequential, or parallel from the
\* call to the return) of an initialized set whose slots are all empty
\* leaves the total 0, fails no assert, writes no header and leaves the set
\* as it was.
C8_EmptyRestore ==
  [][(/\ ~stacks.null
      /\ AllEmpty
      /\ \/ pc = "idle" /\ op'.name \in {"restore_set", "restore_set_par"}
         \/ pc = "run_task" /\ total_size_before = 0) =>
        /\ total_size' = 0
        /\ total_size_before' = 0
        /\ failed' = "none"
        /\ hdr' = hdr
        /\ written' = EmptyBag
        /\ stacks' = stacks
        /\ num' = num]_vars

\* C8 witness: a parallel restore by two workers of two empty slots has
\* returned with total 0 and no failure.
C8_Witness ==
  /\ SetRestoreReturned
  /\ op.name = "restore_set_par"
  /\ ~stacks.null
  /\ num = 2
  /\ n_threads = 2
  /\ n_completed = 2
  /\ total_size_before = 0
  /\ total_size = 0
  /\ AllEmpty
  /\ failed = "none"

\* C9: in every state the operations leave, _num is 0 if and only if
\* _stacks is null, and a non-null array has exactly _num slots.
C9_NumZeroIffNull ==
  /\ (num = 0) <=> stacks.null
  /\ DOMAIN stacks.arr = 0..(num - 1)

\* C9 witness: a set initialized with two slots has been reclaimed: _num is
\* 0 and _stacks is null.
C9_Witness ==
  /\ op.name = "reclaim"
  /\ failed = "none"
  /\ lastLife = [name |-> "reclaim", prev |-> 2, n |-> 0]
  /\ num = 0
  /\ stacks.null

\* C10: a successful reclaim leaves _stacks null and _num 0, and init(n)
\* with n > 0 on an uninitialized set (never initialized, or reclaimed)
\* succeeds with n empty slots, whatever the previous worker count was.
C10_Reinit ==
  [][/\ (op'.name = "reclaim" /\ failed' = "none") =>
          (stacks' = NullStacks /\ num' = 0)
     /\ (op'.name = "init" /\ op'.arg > 0 /\ stacks.null /\ num = 0) =>
          /\ failed' = "none"
          /\ num' = op'.arg
          /\ stacks' = [null |-> FALSE, arr |-> [i \in 0..(op'.arg - 1) |-> EmptyStack]]]_vars

\* C10 witness: the set was initialized, reclaimed and initialized again
\* with another worker count.
C10_Witness ==
  /\ op.name = "init"
  /\ failed = "none"
  /\ lastLife.name = "init"
  /\ lastLife.prev > 0
  /\ lastLife.prev # num
  /\ num > 0
  /\ ~stacks.null

(***************************************************************************)
(* C11: restore_and_increment on a stack of size s, as a worker runs it on *)
(* its claimed slot: s is the size read before the restore; the restore    *)
(* leaves the stack empty and writes back s entries; the tally grows by    *)
(* exactly s; when s = 0 no Atomic::add is made and the tally is left      *)
(* untouched, and when s > 0 exactly one is made.                          *)
(***************************************************************************)
C11_RestoreAndIncrement ==
  [][(pc = "run_task" /\ pc' = "run_task") =>
       \A t \in Workers :
         /\ (wpc[t] = "size" /\ wpc'[t] = "restore") =>
              wsize'[t] = stack_size(get(task_id[t]))
         /\ (wpc[t] = "restore" /\ wpc'[t] = "add") =>
              /\ stack_size(get(task_id[t])) = wsize[t]
              /\ stack_is_empty(stacks'.arr[task_id[t]])
              /\ BagCardinality(written') = BagCardinality(written) + wsize[t]
         /\ (wpc[t] = "add" /\ wpc'[t] # "add") =>
              /\ total_size' = total_size + wsize[t]
              /\ wsize[t] = 0 => (n_adds' = n_adds /\ total_size' = total_size)
              /\ wsize[t] > 0 => n_adds' = n_adds + 1]_vars

\* Two workers are through one restore_and_increment each: worker 0 on a
\* stack of two entries, worker 1 on an empty stack; one add was made.
C11_Witness ==
  /\ pc = "run_task"
  /\ n_threads = 2
  /\ num = 2
  /\ wpc = [t \in 0..1 |-> "claim"]
  /\ wsize = [t \in 0..1 |-> IF t = 0 THEN 2 ELSE 0]
  /\ visits = [i \in 0..1 |-> <<i>>]
  /\ total_size = 2
  /\ n_adds = 1
  /\ BagCardinality(written) = 2
  /\ AllEmpty

(***************************************************************************)
(* C12: two-phase completion of the parallel restore.  A worker signals    *)
(* all_tasks_completed only after try_claim_task found no slot left, and   *)
(* each worker that signalled is counted once; restore reads the total for *)
(* its closing checks only when every participating worker has signalled:  *)
(* in the state the task is observed done no worker is left reading a      *)
(* size, writing headers or adding to the tally, and no add is pending.    *)
(***************************************************************************)
C12_TwoPhase ==
  /\ \A t \in Workers : wpc[t] \in {"signal", "done"} => n_claimed = n_tasks
  /\ n_completed = Cardinality({t \in Workers : wpc[t] = "done"})
  /\ (op.name = "restore_set_par" /\ pc = "idle") =>
       /\ n_threads >= 1
       /\ \A t \in Workers : wpc[t] = "done"
       /\ n_completed = n_threads
       /\ n_claimed = n_tasks
       /\ PendingAdds(n_threads) = 0

\* The task of two workers on two slots is done; each worker restored one
\* non-empty slot, worker 1 the first.
C12_Witness ==
  /\ op.name = "restore_set_par"
  /\ pc = "idle"
  /\ failed = "none"
  /\ n_threads = 2
  /\ num = 2
  /\ visits = [i \in 0..1 |-> <<1 - i>>]
  /\ n_completed = 2
  /\ total_size = 2
  /\ n_adds = 2

(***************************************************************************)
(* The parallel restore under fair scheduling, started on any initialized  *)
(* set the preservation phase can leave behind: 1..MaxNum slots holding at *)
(* most MaxEntries entries between them.  The gang's workers are threads   *)
(* of the operating system, each of which keeps being scheduled while it   *)
(* has a step to take, and the caller blocked in run_task resumes once the *)
(* gang is through.                                                        *)
(***************************************************************************)
PushedEntries == {OopAndMarkWord(o, m) : o \in Obj, m \in PushMarks}

RECURSIVE SeqsUpTo(_, _)
SeqsUpTo(S, n) ==
  IF n = 0 THEN {<<>>}
  ELSE SeqsUpTo(S, n - 1) \cup
       {Append(q, e) : q \in {r \in SeqsUpTo(S, n - 1) : Len(r) = n - 1}, e \in S}

PushedStacks == {[elems |-> q, cache |-> 0] : q \in SeqsUpTo(PushedEntries, MaxEntries)}

PreservedSets ==
  UNION {{arr \in [0..(n - 1) -> PushedStacks] : TotalSize(arr, n) <= MaxEntries} :
         n \in 1..MaxNum}

ParInit ==
  /\ hdr = [o \in Obj |-> InitMark]
  /\ \E arr \in PreservedSets :
       /\ stacks = [null |-> FALSE, arr |-> arr]
       /\ num = Cardinality(DOMAIN arr)
       /\ op = [name |-> IF TotalSize(arr, num) = 0 THEN "init" ELSE "push",
                arg |-> IF TotalSize(arr, num) = 0 THEN num ELSE 0, fwd |-> FALSE]
       /\ lastLife = [name |-> "init", prev |-> 0, n |-> num]
  /\ failed = "none"
  /\ pc = "idle"
  /\ total_size = 0
  /\ total_size_before = 0
  /\ n_threads = 0
  /\ n_tasks = 0
  /\ n_claimed = 0
  /\ n_completed = 0
  /\ wpc = NoWorkers
  /\ task_id = NoWorkers
  /\ wsize = NoWorkers
  /\ written = EmptyBag
  /\ visits = <<>>
  /\ n_adds = 0

WorkerStep(t) ==
  \/ TryClaim(t)
  \/ ReadSize(t)
  \/ DoRestore(t)
  \/ AtomicAdd(t)
  \/ Signal(t)

ParNext ==
  \/ \E T \in 1..MaxThreads : RestoreParBegin(T)
  \/ \E t \in 0..(MaxThreads - 1) : WorkerStep(t)
  \/ RestoreParEnd

FairParSpec ==
  /\ ParInit
  /\ [][ParNext]_vars
  /\ \A t \in 0..(MaxThreads - 1) : WF_vars(WorkerStep(t))
  /\ WF_vars(RestoreParEnd)

(***************************************************************************)
(* C13: termination of the parallel restore.  For every worker count and   *)
(* slot count within the bounds (fewer workers than slots, as many, more), *)
(* under fair scheduling a task that was started is eventually done: every *)
(* worker has found no unclaimed slot, has signalled completion (once: the *)
(* completions number the workers, also for a worker that claimed no slot) *)
(* and has left work(), and every slot is empty.                           *)
(***************************************************************************)
C13_Termination ==
  (pc = "run_task") ~>
     (/\ pc = "idle"
      /\ op.name = "restore_set_par"
      /\ \A t \in Workers : wpc[t] = "done"
      /\ n_completed = n_threads
      /\ n_claimed = n_tasks
      /\ AllEmpty)

\* A task of two workers on a single slot is done: worker 0 restored the
\* slot, worker 1 claimed nothing and signalled all the same.
C13_Witness ==
  /\ op.name = "restore_set_par"
  /\ pc = "idle"
  /\ failed = "none"
  /\ n_threads = 2
  /\ num = 1
  /\ visits = [i \in 0..0 |-> <<0>>]
  /\ wpc = [t \in 0..1 |-> "done"]
  /\ n_completed = 2
  /\ total_size = 2

\* The entries a stack holds, as a bag.
RECURSIVE SeqBag(_)
SeqBag(q) == IF q = <<>> THEN EmptyBag ELSE SeqBag(Tail(q)) (+) SetToBag({Head(q)})

\* The entries slots 0..n-1 of arr hold, as a bag.
RECURSIVE SetBag(_, _)
SetBag(arr, n) == IF n = 0 THEN EmptyBag ELSE SetBag(arr, n - 1) (+) SeqBag(arr[n - 1].elems)

(***************************************************************************)
(* C14: exactly-once write-back.  The sequential restore of an initialized *)
(* set writes back the bag of entries the set held at the call and leaves  *)
(* every slot empty.  The parallel restore starts with nothing written and *)
(* the set untouched; every step of a worker keeps the bag "written back   *)
(* so far plus still held" the same, so an entry is neither lost nor       *)
(* written twice under any interleaving; the return changes neither and    *)
(* finds every slot empty.                                                 *)
(***************************************************************************)
C14_ExactlyOnce ==
  [][/\ (pc = "idle" /\ pc' = "idle" /\ op'.name = "restore_set" /\ ~stacks.null) =>
          /\ written' = SetBag(stacks.arr, num)
          /\ \A w \in Slots : stack_is_empty(stacks'.arr[w])
     /\ (pc = "idle" /\ pc' = "run_task") =>
          /\ written' = EmptyBag
          /\ stacks' = stacks
     /\ (pc = "run_task" /\ pc' = "run_task") =>
          written' (+) SetBag(stacks'.arr, num) = written (+) SetBag(stacks.arr, num)
     /\ (pc = "run_task" /\ pc' = "idle") =>
          /\ written' = written
          /\ stacks' = stacks
          /\ \A w \in Slots : stack_is_empty(stacks'.arr[w])]_vars

\* A sequential restore of two slots has written back two entries that are
\* equal, each once.
C14_Witness ==
  /\ op.name = "restore_set"
  /\ pc = "idle"
  /\ failed = "none"
  /\ num = 2
  /\ total_size_before = 2
  /\ \E e \in BagToSet(written) : CopiesIn(e, written) = 2
  /\ AllEmpty

\* The entries of the whole set have pairwise distinct targets.
SetDistinct ==
  \A v, w \in Slots :
    \A j \in 1..Len(get(v).elems), k \in 1..Len(get(w).elems) :
      (v # w \/ j # k) => get(v).elems[j].obj # get(w).elems[k].obj

\* The sizes workers wp have read (ws) and not yet added to the tally.
RECURSIVE PendingOf(_, _, _)
PendingOf(wp, ws, t) ==
  IF t = 0 THEN 0
  ELSE PendingOf(wp, ws, t - 1) + (IF wp[t - 1] = "add" THEN ws[t - 1] ELSE 0)

\* What the sequential restore would make of a set arr of n slots under the
\* headers h: the headers it would leave, the slots it would leave, and the
\* total it would count on top of what the workers have tallied (total) or
\* are about to (pending).
SeqOutcome(arr, n, h, total, pending) ==
  LET r == seq_restore_loop(0, n, arr, h, EmptyBag, 0)
  IN [hdr |-> r.hdr, arr |-> r.arr, total |-> total + pending + r.total]

(***************************************************************************)
(* C15: sequential/parallel equivalence.  For a set whose entries have     *)
(* pairwise distinct targets, the parallel restore ends as the sequential  *)
(* restore of the same set would, for every number of workers and every    *)
(* interleaving: at the call the sequential outcome is that of the         *)
(* untouched set; no step of a worker changes the sequential outcome of    *)
(* what is left; and at the return nothing is left, so the headers, the    *)
(* empty slots and the total are that outcome.                             *)
(***************************************************************************)
C15_SeqParEquivalence ==
  [][(~stacks.null /\ SetDistinct /\ (pc = "run_task" \/ pc' = "run_task")) =>
       LET now == SeqOutcome(stacks.arr, num, hdr, total_size,
                             PendingOf(wpc, wsize, n_threads))
       IN /\ (pc = "idle" /\ pc' = "run_task") =>
               SeqOutcome(stacks'.arr, num', hdr', total_size',
                          PendingOf(wpc', wsize', n_threads'))
                 = SeqOutcome(stacks.arr, num, hdr, 0, 0)
          /\ (pc = "run_task" /\ pc' = "run_task") =>
               SeqOutcome(stacks'.arr, num', hdr', total_size',
                          PendingOf(wpc', wsize', n_threads')) = now
          /\ (pc = "run_task" /\ pc' = "idle") =>
               /\ hdr' = now.hdr
               /\ stacks'.arr = now.arr
               /\ total_size' = now.total
               /\ failed' = "none"]_vars

\* Two workers have restored a set of two slots whose entries target two
\* different objects with two different marks, the second slot first; the
\* headers are the saved marks.
C15_Witness ==
  /\ op.name = "restore_set_par"
  /\ pc = "idle"
  /\ failed = "none"
  /\ n_threads = 2
  /\ num = 2
  /\ \A w \in Slots : Len(visits[w]) = 1
  /\ visits[0] # visits[1]
  /\ \E e1, e2 \in BagToSet(written) :
       /\ e1.obj # e2.obj
       /\ e1.mark # e2.mark
       /\ hdr[e1.obj] = e1.mark
       /\ hdr[e2.obj] = e2.mark
  /\ total_size = 2
  /\ AllEmpty

(***************************************************************************)
(* C16: adjust_during_full_gc neither removes nor adds an entry and        *)
(* changes no saved mark: over a call, every stack keeps its size and its  *)
(* order, every entry keeps its saved mark (and the record of the object   *)
(* it was pushed for), an entry whose target is not forwarded is unchanged *)
(* altogether, no header is written and the set keeps its slots.           *)
(***************************************************************************)
C16_AdjustFrame ==
  [][op'.name = "adjust" =>
       /\ hdr' = hdr
       /\ num' = num
       /\ DOMAIN stacks'.arr = DOMAIN stacks.arr
       /\ \A w \in Slots :
            /\ stack_size(stacks'.arr[w]) = stack_size(get(w))
            /\ cache_size(stacks'.arr[w]) = cache_size(get(w))
            /\ \A k \in 1..Len(get(w).elems) :
                 /\ stacks'.arr[w].elems[k].mark = get(w).elems[k].mark
                 /\ stacks'.arr[w].elems[k].from = get(w).elems[k].from
                 /\ ~is_forwarded(hdr[get(w).elems[k].obj]) =>
                      stacks'.arr[w].elems[k] = get(w).elems[k]]_vars

\* An adjust pass has gone over a stack of two entries with different
\* marks: the lower one was retargeted, the upper one, whose target is not
\* forwarded, is as it was pushed.
C16_Witness ==
  /\ op.name = "adjust"
  /\ num = 1
  /\ stack_size(get(0)) = 2
  /\ get(0).elems[1].from # get(0).elems[1].obj
  /\ get(0).elems[2].from = get(0).elems[2].obj
  /\ ~is_forwarded(hdr[get(0).elems[2].obj])
  /\ get(0).elems[1].mark # get(0).elems[2].mark

(***************************************************************************)
(* C17: the post-condition of init.  A successful init(n) with n > 0 on an *)
(* uninitialized set leaves num = n and exactly n slots, all empty; and    *)
(* from then on, whatever is pushed, adjusted or restored, num and the     *)
(* number of slots stay those of that init until reclaim takes the slots   *)
(* away (after which, and before the first init, there are none).          *)
(***************************************************************************)
C17_InitPost ==
  /\ (op.name = "init" /\ failed = "none") =>
       /\ op.arg > 0
       /\ num = op.arg
       /\ ~stacks.null
       /\ DOMAIN stacks.arr = 0..(op.arg - 1)
       /\ \A w \in DOMAIN stacks.arr : stacks.arr[w] = EmptyStack
       /\ lastLife.n = op.arg
  /\ lastLife.name = "init" =>
       /\ num = lastLife.n
       /\ ~stacks.null
       /\ Cardinality(DOMAIN stacks.arr) = lastLife.n
  /\ lastLife.name # "init" =>
       /\ num = 0
       /\ stacks = NullStacks

\* A set initialized with two slots still has its two slots after pushes,
\* an adjust pass and a parallel restore.
C17_Witness ==
  /\ lastLife = [name |-> "init", prev |-> 0, n |-> 2]
  /\ op.name = "restore_set_par"
  /\ pc = "idle"
  /\ failed = "none"
  /\ num = 2
  /\ DOMAIN stacks.arr = 0..1
  /\ \E e \in BagToSet(written) : e.from # e.obj

\* The headers after the entries of q are written back front to back.
RECURSIVE write_back_in_order(_, _)
write_back_in_order(q, h) ==
  IF q = <<>> THEN h ELSE write_back_in_order(Tail(q), set_mark(Head(q), h))

\* The entries of q in the order p gives them.
Reordered(q, p) == [k \in 1..Len(q) |-> q[p[k]]]

(***************************************************************************)
(* C18: drain order is immaterial.  For every stack the set can hold whose *)
(* entries have pairwise distinct targets, and the headers as they are,    *)
(* writing the entries back in any order (first in first out, or any other *)
(* permutation) leaves the headers restore() leaves by popping them last   *)
(* in first out.                                                           *)
(***************************************************************************)
C18_DrainOrder ==
  \A w \in Slots :
    DistinctTargets(get(w)) =>
      \A p \in Permutations(1..Len(get(w).elems)) :
        write_back_in_order(Reordered(get(w).elems, p), hdr)
          = PM_restore(get(w), hdr, EmptyBag).hdr

\* A stack holds two entries with different targets and different marks,
\* and writing them back first in first out changes both headers, to what
\* restore() makes them.
C18_Witness ==
  \E w \in Slots :
    /\ stack_size(get(w)) = 2
    /\ DistinctTargets(get(w))
    /\ get(w).elems[1].mark # get(w).elems[2].mark
    /\ \A o \in Obj : write_back_in_order(get(w).elems, hdr)[o] # hdr[o]
    /\ write_back_in_order(get(w).elems, hdr) = PM_restore(get(w), hdr, EmptyBag).hdr
    /\ PM_restore(get(w), hdr, EmptyBag).stack = EmptyStack

(***************************************************************************)
(* C19: one adjust pass follows exactly one forwarding hop.  Over a call   *)
(* on slot w every entry's target becomes the forwardee its old target's   *)
(* header names if that header is a forwarding pointer, and stays what it  *)
(* was otherwise; the header of the forwardee is not looked at, so an      *)
(* entry whose forwardee is forwarded itself stops at the forwardee, and   *)
(* moves on only in a further pass.                                        *)
(***************************************************************************)
C19_OneHop ==
  [][op'.name = "adjust" =>
       \E w \in Slots :
         /\ \A v \in Slots \ {w} : stacks'.arr[v] = get(v)
         /\ DOMAIN stacks'.arr[w].elems = DOMAIN get(w).elems
         /\ \A k \in 1..Len(get(w).elems) :
              LET old == get(w).elems[k].obj
                  new == stacks'.arr[w].elems[k].obj
              IN /\ is_forwarded(hdr[old]) => new = forwardee(hdr[old])
                 /\ ~is_forwarded(hdr[old]) => new = old]_vars

\* An adjust pass has moved an entry pushed for A to B, the object A's
\* header forwards to, and left it there although B's header is a
\* forwarding pointer too.
C19_Witness ==
  /\ op.name = "adjust"
  /\ num = 1
  /\ \E k \in 1..Len(get(0).elems) :
       LET e == get(0).elems[k]
       IN /\ e.from # e.obj
          /\ hdr[e.from] = Fwd(e.obj)
          /\ is_forwarded(hdr[e.obj])

(***************************************************************************)
(* C20: the set-level restore and reclaim both require an initialized set. *)
(* A restore (sequential or parallel) that returns on a set without slots, *)
(* never initialized or reclaimed, has failed the "should have been        *)
(* initialized" check; a reclaim that succeeded took the slots of an       *)
(* initialized set (it records how many), and a reclaim that ends on a set *)
(* without slots otherwise failed that same check.  So a second reclaim in *)
(* a row, and a restore after a reclaim without a new init, fail.          *)
(***************************************************************************)
C20_NeedsInit ==
  /\ (op.name \in {"restore_set", "restore_set_par"} /\ pc = "idle" /\ stacks.null) =>
       failed = "should have been initialized"
  /\ (op.name = "reclaim" /\ failed = "none") =>
       /\ lastLife.name = "reclaim"
       /\ lastLife.prev > 0
  /\ (op.name = "reclaim" /\ failed # "none" /\ stacks.null) =>
       failed = "should have been initialized"
  /\ (failed = "none" /\ pc = "run_task" /\ stacks.null) => n_tasks = 0

\* A set was initialized with two slots and reclaimed, and a parallel
\* restore of two workers called on the reclaimed set has failed the check
\* at its return.
C20_Witness ==
  /\ lastLife = [name |-> "reclaim", prev |-> 2, n |-> 0]
  /\ stacks.null
  /\ failed = "should have been initialized"
  /\ op.name = "restore_set_par"
  /\ pc = "idle"
  /\ n_threads = 2
  /\ n_completed = 2

=============================================================================
